---- MODULE Spec2Model ----
(***************************************************************************)
(* Post-execution event extraction of crates/node-stream/src/example.rs:   *)
(* the topic model (Display / FromStr / topic_for_epoch), the object       *)
(* change taxonomy, TxInfoData::from_post_exec, TxInfoData::to_topic and    *)
(* the envelope-building from_post_exec.                                   *)
(***************************************************************************)
EXTENDS Integers, Sequences, FiniteSets, TLC

(***************************************************************************)
(* Bounds of the model.                                                    *)
(***************************************************************************)
\* number of object ids a transaction may touch or load
MaxObj == 2
\* largest epoch number a topic is derived for
MaxEpoch == 11

\* the version every object had before the transaction, and the (lamport)
\* version the transaction assigns to every object it writes or removes
PrevVersion == 1
TxVersion == 2

ObjectIDs == 1..MaxObj
Versions == {PrevVersion, TxVersion}
Keys == ObjectIDs \X Versions

\* Option<T> is a sequence of at most one element
None == <<>>
Some(x) == <<x>>
IsSome(o) == Len(o) = 1
Unwrap(o) == o[1]

VARIABLES
    cert,                  \* the transaction: cert.intent_message().value
    effects,               \* TransactionEffects
    loaded_child_objects,  \* BTreeMap<ObjectID, SequenceNumber>
    store,                 \* the object store: key -> Option<Object>
    fault,                 \* Option<ObjectID>: the object whose DB reads fail
    ret,                   \* what the last call returned (or that it panicked)
    topic_in,              \* the string handed to from_str
    topic_out              \* the last result of the topic model

vars == <<cert, effects, loaded_child_objects, store, fault, ret, topic_in, topic_out>>

(***************************************************************************)
(* Sequence helpers.                                                       *)
(***************************************************************************)
RECURSIVE FilterMap(_, _)
\* Iterator::filter_map with an Option-valued function already applied:
\* keeps the Some values, in order
FilterMap(s, i) ==
    IF i > Len(s) THEN <<>>
    ELSE (IF IsSome(s[i]) THEN <<Unwrap(s[i])>> ELSE <<>>) \o FilterMap(s, i + 1)

RECURSIVE Flatten(_, _)
Flatten(s, i) == IF i > Len(s) THEN <<>> ELSE s[i] \o Flatten(s, i + 1)

(***************************************************************************)
(* The topic model.                                                        *)
(***************************************************************************)
TxInfoNodeStreamTopic ==
    {"String", "PackagePublish", "ObjectChangeLight", "ObjectChangeRaw",
     "MoveCall", "Transaction", "Effects", "GasCostSummary"}

\* impl Display for TxInfoNodeStreamTopic
Fmt(k) ==
    CASE k = "String" -> "string"
      [] k = "PackagePublish" -> "package_publish"
      [] k = "ObjectChangeLight" -> "object_change_light"
      [] k = "ObjectChangeRaw" -> "object_change_raw"
      [] k = "MoveCall" -> "move_call"
      [] k = "Transaction" -> "transaction"
      [] k = "GasCostSummary" -> "gas_cost_summary"
      [] k = "Effects" -> "effects"

Ok(v) == [ok |-> TRUE, value |-> v]
Err(e) == [ok |-> FALSE, error |-> e]

\* impl FromStr for TxInfoNodeStreamTopic
\* (a variant with the arms of "effects" and "gas_cost_summary" exchanged)
FromStr_swapped(s) ==
    CASE s = "string" -> Ok("String")
      [] s = "package_publish" -> Ok("PackagePublish")
      [] s = "object_change_light" -> Ok("ObjectChangeLight")
      [] s = "object_change_raw" -> Ok("ObjectChangeRaw")
      [] s = "move_call" -> Ok("MoveCall")
      [] s = "transaction" -> Ok("Transaction")
      [] s = "effects" -> Ok("GasCostSummary")
      [] s = "gas_cost_summary" -> Ok("Effects")
      [] OTHER -> Err("Invalid topic")

FromStr(s) ==
    CASE s = "string" -> Ok("String")
      [] s = "package_publish" -> Ok("PackagePublish")
      [] s = "object_change_light" -> Ok("ObjectChangeLight")
      [] s = "object_change_raw" -> Ok("ObjectChangeRaw")
      [] s = "move_call" -> Ok("MoveCall")
      [] s = "transaction" -> Ok("Transaction")
      [] s = "effects" -> Ok("Effects")
      [] s = "gas_cost_summary" -> Ok("GasCostSummary")
      [] OTHER -> Err("Invalid topic")

\* Display for u64: the decimal digits, most significant first
Digit(d) ==
    CASE d = 0 -> "0" [] d = 1 -> "1" [] d = 2 -> "2" [] d = 3 -> "3"
      [] d = 4 -> "4" [] d = 5 -> "5" [] d = 6 -> "6" [] d = 7 -> "7"
      [] d = 8 -> "8" [] d = 9 -> "9"

RECURSIVE FmtU64(_)
FmtU64(n) == IF n < 10 THEN Digit(n) ELSE FmtU64(n \div 10) \o Digit(n % 10)

\* TxInfoNodeStreamTopic::topic_for_epoch: format!("{}-{}", epoch, self)
\* (a variant that writes only the last digit of the epoch)
TopicForEpoch_last_digit(k, epoch) == Digit(epoch % 10) \o "-" \o Fmt(k)

TopicForEpoch(k, epoch) == FmtU64(epoch) \o "-" \o Fmt(k)

(***************************************************************************)
(* The object change taxonomy and the event bodies.                        *)
(***************************************************************************)
\* enum ObjectChangeStatus
Created(r, o) == [status |-> "Created", ref |-> r, owner |-> o]
Mutated(r, o) == [status |-> "Mutated", ref |-> r, owner |-> o]
Deleted(r) == [status |-> "Deleted", ref |-> r]
Wrapped(r) == [status |-> "Wrapped", ref |-> r]
Unwrapped(r, o) == [status |-> "Unwrapped", ref |-> r, owner |-> o]
UnwrappedThenDeleted(r) == [status |-> "UnwrappedThenDeleted", ref |-> r]
LoadedChildObject(id, seq) == [status |-> "LoadedChildObject", id |-> id, seq |-> seq]

\* enum TxInfoData
StringData(s) == [variant |-> "String", text |-> s]
PackagePublish(o) == [variant |-> "PackagePublish", package |-> o]
ObjectChangeLight(c) == [variant |-> "ObjectChangeLight", change |-> c]
ObjectChangeRaw(c, o) == [variant |-> "ObjectChangeRaw", change |-> c, object |-> o]
MoveCall(p, m, f) == [variant |-> "MoveCall", package |-> p, module |-> m, function |-> f]
Transaction(t) == [variant |-> "Transaction", tx |-> t]
Effects(e) == [variant |-> "Effects", effects |-> e]
GasCostSummary(g) == [variant |-> "GasCostSummary", gas |-> g]

\* TxInfoData::to_topic
\* (a variant with the arms of GasCostSummary and Effects exchanged)
ToTopic_swapped(data) ==
    CASE data.variant = "String" -> "String"
      [] data.variant = "PackagePublish" -> "PackagePublish"
      [] data.variant = "ObjectChangeLight" -> "ObjectChangeLight"
      [] data.variant = "ObjectChangeRaw" -> "ObjectChangeRaw"
      [] data.variant = "MoveCall" -> "MoveCall"
      [] data.variant = "Transaction" -> "Transaction"
      [] data.variant = "GasCostSummary" -> "Effects"
      [] data.variant = "Effects" -> "GasCostSummary"

ToTopic(data) ==
    CASE data.variant = "String" -> "String"
      [] data.variant = "PackagePublish" -> "PackagePublish"
      [] data.variant = "ObjectChangeLight" -> "ObjectChangeLight"
      [] data.variant = "ObjectChangeRaw" -> "ObjectChangeRaw"
      [] data.variant = "MoveCall" -> "MoveCall"
      [] data.variant = "Transaction" -> "Transaction"
      [] data.variant = "GasCostSummary" -> "GasCostSummary"
      [] data.variant = "Effects" -> "Effects"

(***************************************************************************)
(* The collaborators of extraction: the object store, the effects and the  *)
(* transaction accessors.                                                  *)
(***************************************************************************)
\* ObjectStore::get_object_by_key: Result<Option<Object>, Error>.  Every read of
\* the object named by flt fails; any other read answers with the store's content.
GetObjectByKey(st, flt, id, version) ==
    IF flt = Some(id)
    THEN [err |-> TRUE, obj |-> None]
    ELSE [err |-> FALSE, obj |-> st[<<id, version>>]]

\* BTreeMap::iter: the keys in ascending order
RECURSIVE AscendingKeys(_)
AscendingKeys(S) ==
    IF S = {} THEN <<>>
    ELSE LET least == CHOOSE x \in S : \A y \in S : x <= y
         IN <<least>> \o AscendingKeys(S \ {least})

\* TransactionDataAPI::move_calls: (package, module, function) per call, in call order
MoveCallsOf(tx) == tx.move_calls

(***************************************************************************)
(* TxInfoData::from_post_exec                                              *)
(***************************************************************************)
RefBearing == {"Created", "Mutated", "Deleted", "Wrapped", "Unwrapped", "UnwrappedThenDeleted"}

\* the seven result.extend(...) of the "Objects" part
LightChanges(eff, loaded) ==
    LET ids == AscendingKeys(DOMAIN loaded)
    IN [i \in 1..Len(eff.created) |->
            ObjectChangeLight(Created(eff.created[i][1], eff.created[i][2]))]
    \o [i \in 1..Len(eff.mutated) |->
            ObjectChangeLight(Mutated(eff.mutated[i][1], eff.mutated[i][2]))]
    \o [i \in 1..Len(eff.deleted) |-> ObjectChangeLight(Deleted(eff.deleted[i]))]
    \o [i \in 1..Len(eff.wrapped) |-> ObjectChangeLight(Wrapped(eff.wrapped[i]))]
    \o [i \in 1..Len(eff.unwrapped) |->
            ObjectChangeLight(Unwrapped(eff.unwrapped[i][1], eff.unwrapped[i][2]))]
    \o [i \in 1..Len(eff.unwrapped_then_deleted) |->
            ObjectChangeLight(UnwrappedThenDeleted(eff.unwrapped_then_deleted[i]))]
    \o [i \in 1..Len(ids) |-> ObjectChangeLight(LoadedChildObject(ids[i], loaded[ids[i]]))]

\* .expect("DB read should not fail"): the value of an Ok, a panic on an Err
\* (a variant that takes a failed read for None: unwrap_or(None))
ExpectDbRead_or_none(r) == [panic |-> FALSE, val |-> r.obj]

ExpectDbRead(r) == [panic |-> r.err, val |-> r.obj]

\* if let Some(o) = obj.clone() { if o.is_package() { packages.push(...) } }
\* (a variant with the is_package test negated)
PackagesPushed_negated(obj) ==
    IF IsSome(obj)
    THEN (IF ~Unwrap(obj).is_package THEN <<PackagePublish(Unwrap(obj))>> ELSE <<>>)
    ELSE <<>>

PackagesPushed(obj) ==
    IF IsSome(obj)
    THEN (IF Unwrap(obj).is_package THEN <<PackagePublish(Unwrap(obj))>> ELSE <<>>)
    ELSE <<>>

\* the match arm of the six statuses that carry an ObjectRef r
\* (a variant that reads the object at its previous version)
ResolveRef_prev_version(change, st, flt) ==
    LET r == change.ref
        obj == ExpectDbRead(GetObjectByKey(st, flt, r.id, PrevVersion))
    IN [panic |-> obj.panic,
        raw |-> ObjectChangeRaw(change, obj.val),
        pushed |-> PackagesPushed(obj.val)]

ResolveRef(change, st, flt) ==
    LET r == change.ref
        obj == ExpectDbRead(GetObjectByKey(st, flt, r.id, r.version))
    IN [panic |-> obj.panic,
        raw |-> ObjectChangeRaw(change, obj.val),
        pushed |-> PackagesPushed(obj.val)]

\* the match arm of LoadedChildObject(id, seq)
\* (variants: one that also pushes a package, one that does not resolve)
ResolveLoadedChild_checks_package(change, st, flt) ==
    LET obj == ExpectDbRead(GetObjectByKey(st, flt, change.id, change.seq))
    IN [panic |-> obj.panic,
        raw |-> ObjectChangeRaw(change, obj.val),
        pushed |-> PackagesPushed(obj.val)]

ResolveLoadedChild_unresolved(change, st, flt) ==
    LET obj == ExpectDbRead(GetObjectByKey(st, flt, change.id, change.seq))
    IN [panic |-> obj.panic,
        raw |-> ObjectChangeRaw(change, None),
        pushed |-> <<>>]

ResolveLoadedChild(change, st, flt) ==
    LET obj == ExpectDbRead(GetObjectByKey(st, flt, change.id, change.seq))
    IN [panic |-> obj.panic,
        raw |-> ObjectChangeRaw(change, obj.val),
        pushed |-> <<>>]

\* the closure handed to filter_map
ResolveEvent(q, st, flt) ==
    IF q.variant = "ObjectChangeLight"
    THEN Some(IF q.change.status \in RefBearing
              THEN ResolveRef(q.change, st, flt)
              ELSE ResolveLoadedChild(q.change, st, flt))
    ELSE None

\* result.append(&mut packages); result.append(&mut objects);
\* (a variant with the two appends exchanged)
AppendBlocks_objects_first(result, packages, objects) == result \o objects \o packages

AppendBlocks(result, packages, objects) == result \o packages \o objects

Panicked == [panicked |-> TRUE, value |-> <<>>]
Returned(v) == [panicked |-> FALSE, value |-> v]

FromPostExecData(c, eff, loaded, st, flt) ==
    LET result == LightChanges(eff, loaded)
        resolved == FilterMap([i \in 1..Len(result) |-> ResolveEvent(result[i], st, flt)], 1)
        packages == Flatten([i \in 1..Len(resolved) |-> resolved[i].pushed], 1)
        objects == [i \in 1..Len(resolved) |-> resolved[i].raw]
        calls == MoveCallsOf(c)
    IN IF \E i \in 1..Len(resolved) : resolved[i].panic
       THEN Panicked
       ELSE Returned(
               AppendBlocks(result, packages, objects)
            \o <<GasCostSummary(eff.gas_cost_summary)>>
            \o [i \in 1..Len(calls) |-> MoveCall(calls[i][1], calls[i][2], calls[i][3])]
            \o <<Effects(eff)>>
            \o <<Transaction(c)>>)

(***************************************************************************)
(* from_post_exec: one (payload, topic) pair per event body                *)
(***************************************************************************)
TxInfoMetadata(ts, cp, sender, digest) ==
    [message_process_timestamp_ms |-> ts, checkpoint_id |-> cp,
     sender |-> sender, tx_digest |-> digest]

NodeStreamPayload(md, data) == [metdata |-> md, data |-> data]

FromPostExec(ts, cp, sender, digest, c, eff, loaded, st, flt) ==
    LET extracted == FromPostExecData(c, eff, loaded, st, flt)
    IN IF extracted.panicked
       THEN Panicked
       ELSE Returned([i \in 1..Len(extracted.value) |->
                <<NodeStreamPayload(TxInfoMetadata(ts, cp, sender, digest),
                                    extracted.value[i]),
                  ToTopic(extracted.value[i])>>])

(***************************************************************************)
(* The inputs of one call: a committed transaction, its effects, the       *)
(* children it loaded and the store after the commit.                      *)
(***************************************************************************)
Roles == {"created", "mutated", "deleted", "wrapped", "unwrapped",
          "unwrapped_then_deleted", "untouched"}
\* the roles of an object that was in the store before the transaction
ExistedBefore == {"mutated", "deleted", "wrapped", "untouched"}
\* the roles of an object the transaction writes to the store
WrittenBy == {"created", "mutated", "unwrapped"}

ObjectOf(id, version, pkg) == [id |-> id, version |-> version, is_package |-> pkg]
OwnerOf(pkg) == IF pkg THEN "Immutable" ELSE "AddressOwner"
DigestOf(role) ==
    CASE role \in {"deleted", "unwrapped_then_deleted"} -> "OBJECT_DIGEST_DELETED"
      [] role = "wrapped" -> "OBJECT_DIGEST_WRAPPED"
      [] OTHER -> "CONTENT_DIGEST"
ObjectRef(id, role) == [id |-> id, version |-> TxVersion, digest |-> DigestOf(role)]

\* the orders in which effects may report the objects
ReportOrders == {p \in [1..MaxObj -> ObjectIDs] : \A i, j \in 1..MaxObj : p[i] = p[j] => i = j}

\* the objects of role r, in the order the effects report them
Reported(order, role, r) == SelectSeq(order, LAMBDA id : role[id] = r)

RefsOf(order, role, r) ==
    LET ids == Reported(order, role, r)
    IN [i \in 1..Len(ids) |-> ObjectRef(ids[i], r)]
OwnedRefsOf(order, role, pkg, r) ==
    LET ids == Reported(order, role, r)
    IN [i \in 1..Len(ids) |-> <<ObjectRef(ids[i], r), OwnerOf(pkg[ids[i]])>>]

\* the move calls of a transaction: none, one, two in either order, one twice
CallLists ==
    LET mint == <<1, "coin", "mint">>
        place == <<2, "kiosk", "place">>
    IN {<<>>, <<mint>>, <<mint, place>>, <<place, mint>>, <<mint, mint>>}
TransactionDataOf(calls) == [kind |-> "ProgrammableTransaction", move_calls |-> calls]

GasOf(calls, role) ==
    [computation_cost |-> 1 + Len(calls),
     storage_cost |-> Cardinality({id \in ObjectIDs : role[id] \in WrittenBy}),
     storage_rebate |-> Cardinality({id \in ObjectIDs : role[id] \in {"deleted", "wrapped"}}),
     non_refundable_storage_fee |-> 0]

EffectsOf(calls, order, role, pkg) ==
    [created |-> OwnedRefsOf(order, role, pkg, "created"),
     mutated |-> OwnedRefsOf(order, role, pkg, "mutated"),
     deleted |-> RefsOf(order, role, "deleted"),
     wrapped |-> RefsOf(order, role, "wrapped"),
     unwrapped |-> OwnedRefsOf(order, role, pkg, "unwrapped"),
     unwrapped_then_deleted |-> RefsOf(order, role, "unwrapped_then_deleted"),
     gas_cost_summary |-> GasOf(calls, role)]

\* the store after the commit: the previous version of every object that
\* existed, the new version of every object the transaction wrote, and no
\* object at the version of a deleted or wrapped reference
StoreOf(role, pkg) ==
    [k \in Keys |->
        IF k[2] = PrevVersion
        THEN (IF role[k[1]] \in ExistedBefore
              THEN Some(ObjectOf(k[1], PrevVersion, pkg[k[1]])) ELSE None)
        ELSE (IF role[k[1]] \in WrittenBy
              THEN Some(ObjectOf(k[1], TxVersion, pkg[k[1]])) ELSE None)]

NotCalled == [op |-> "none", panicked |-> FALSE, value |-> <<>>, metadata |-> None]
NoTopic == [op |-> "none"]

\* the objects whose package flag a call can observe: those it can resolve
Readable(role, children) == {id \in ObjectIDs : role[id] \in WrittenBy} \cup children

ExtractInit ==
    \E role \in [ObjectIDs -> Roles] :
    \E children \in SUBSET {id \in ObjectIDs : role[id] \in ExistedBefore} :
    \E packages \in SUBSET Readable(role, children) :
    \E order \in ReportOrders, calls \in CallLists,
       flt \in {None} \cup {Some(id) : id \in ObjectIDs} :
        LET pkg == [id \in ObjectIDs |-> id \in packages]
        IN /\ cert = TransactionDataOf(calls)
           /\ effects = EffectsOf(calls, order, role, pkg)
           /\ loaded_child_objects = [id \in children |-> PrevVersion]
           /\ store = StoreOf(role, pkg)
           /\ fault = flt
           /\ ret = NotCalled

Init ==
    /\ ExtractInit
    /\ topic_in = ""
    /\ topic_out = NoTopic

\* the metadata a caller may supply
Metadatas ==
    {<<1000, 7, "0xa11ce", "tx1">>, <<2000, 7, "0xb0b", "tx1">>,
     <<1000, 1000, "0xa11ce", "tx2">>}

\* a call of TxInfoData::from_post_exec
Extract ==
    /\ ret.op = "none"
    /\ ret' = [op |-> "extract", metadata |-> None]
              @@ FromPostExecData(cert, effects, loaded_child_objects, store, fault)
    /\ UNCHANGED <<cert, effects, loaded_child_objects, store, fault, topic_in, topic_out>>

\* a call of from_post_exec
Envelope ==
    /\ ret.op = "none"
    /\ \E md \in Metadatas :
        ret' = [op |-> "envelope",
                metadata |-> Some(md)]
               @@ FromPostExec(md[1], md[2], md[3], md[4],
                               cert, effects, loaded_child_objects, store, fault)
    /\ UNCHANGED <<cert, effects, loaded_child_objects, store, fault, topic_in, topic_out>>

Next == Extract \/ Envelope

Spec == Init /\ [][Next]_vars

(***************************************************************************)
(* The topic model on its own: strings are parsed, kinds are formatted and *)
(* epoch topics are derived.                                               *)
(***************************************************************************)
Epochs == 0..MaxEpoch

\* the strings handed to from_str: what Display produces, the variant names,
\* upper-case and mixed-case variants, the empty string, strings with blanks,
\* and epoch topics
TopicStrings ==
    {Fmt(k) : k \in TxInfoNodeStreamTopic}
    \cup TxInfoNodeStreamTopic
    \cup {"", " ", "STRING", "EFFECTS", "Move_Call", "movecall", "move-call",
          "transaction ", " effects", "gas_cost", "object_change", "topic"}
    \cup {TopicForEpoch(k, e) : k \in TxInfoNodeStreamTopic, e \in {0, MaxEpoch}}

TopicInit ==
    /\ cert = TransactionDataOf(<<>>)
    /\ effects = EffectsOf(<<>>, [i \in 1..MaxObj |-> i],
                           [id \in ObjectIDs |-> "untouched"],
                           [id \in ObjectIDs |-> FALSE])
    /\ loaded_child_objects = <<>>
    /\ store = StoreOf([id \in ObjectIDs |-> "untouched"], [id \in ObjectIDs |-> FALSE])
    /\ fault = None
    /\ ret = NotCalled
    /\ topic_in = ""
    /\ topic_out = NoTopic

\* kind.to_string()
Format ==
    /\ \E k \in TxInfoNodeStreamTopic :
        topic_out' = [op |-> "format", kind |-> k, text |-> Fmt(k)]
    /\ UNCHANGED <<cert, effects, loaded_child_objects, store, fault, ret, topic_in>>

\* s.parse::<TxInfoNodeStreamTopic>()
Parse ==
    /\ \E s \in TopicStrings :
        /\ topic_in' = s
        /\ topic_out' = [op |-> "parse", result |-> FromStr(s)]
    /\ UNCHANGED <<cert, effects, loaded_child_objects, store, fault, ret>>

\* the string a kind was formatted to is parsed back
ParseFormatted ==
    /\ topic_out.op = "format"
    /\ topic_in' = topic_out.text
    /\ topic_out' = [op |-> "parse", result |-> FromStr(topic_out.text)]
    /\ UNCHANGED <<cert, effects, loaded_child_objects, store, fault, ret>>

\* kind.topic_for_epoch(epoch)
EpochTopic ==
    /\ \E k \in TxInfoNodeStreamTopic, e \in Epochs :
        topic_out' = [op |-> "topic_for_epoch", kind |-> k, epoch |-> e,
                      text |-> TopicForEpoch(k, e)]
    /\ UNCHANGED <<cert, effects, loaded_child_objects, store, fault, ret, topic_in>>

TopicNext == Format \/ Parse \/ ParseFormatted \/ EpochTopic

TopicSpec == TopicInit /\ [][TopicNext]_vars

(***************************************************************************)
(* Properties of the topic model.                                          *)
(***************************************************************************)
\* C6: from_str inverts Display.  Whenever a string has been parsed: if it is
\* the string Display produces for a kind k, the result is Ok(k), and for every
\* other string (a variant name, another case, the empty string, an epoch
\* topic) the result is the "Invalid topic" error.
C6_ParseInvertsFormat ==
    topic_out.op = "parse" =>
        /\ \A k \in TxInfoNodeStreamTopic :
              topic_in = Fmt(k) => topic_out.result = Ok(k)
        /\ (\A k \in TxInfoNodeStreamTopic : topic_in # Fmt(k))
              => topic_out.result = Err("Invalid topic")

\* a formatted kind has been parsed back to itself
C6_Witness ==
    /\ topic_out.op = "parse"
    /\ topic_in = "gas_cost_summary"
    /\ topic_out.result = Ok("GasCostSummary")

\* C7: topic_for_epoch(kind, epoch) is the decimal epoch, a dash and the
\* formatted kind, and no other (kind, epoch) pair yields the same string.
C7_EpochTopicInjective ==
    topic_out.op = "topic_for_epoch" =>
        /\ topic_out.text = ToString(topic_out.epoch) \o "-" \o Fmt(topic_out.kind)
        /\ \A k \in TxInfoNodeStreamTopic, e \in Epochs :
              TopicForEpoch(k, e) = topic_out.text
                 => k = topic_out.kind /\ e = topic_out.epoch

\* a topic has been derived for a two-digit epoch
C7_Witness ==
    /\ topic_out.op = "topic_for_epoch"
    /\ topic_out.epoch = 10
    /\ topic_out.text = "10-effects"

(***************************************************************************)
(* Properties of extraction.                                               *)
(***************************************************************************)
\* the last call was TxInfoData::from_post_exec and it returned a list
Extracted == ret.op = "extract" /\ ~ret.panicked
Out == ret.value
OfVariant(v) == SelectSeq(Out, LAMBDA e : e.variant = v)

\* the place of a variant's block in the list
BlockRank(v) ==
    CASE v = "ObjectChangeLight" -> 1
      [] v = "PackagePublish" -> 2
      [] v = "ObjectChangeRaw" -> 3
      [] v = "GasCostSummary" -> 4
      [] v = "MoveCall" -> 5
      [] v = "Effects" -> 6
      [] v = "Transaction" -> 7
      [] OTHER -> 0

\* the key a light change is resolved at
KeyOf(change) ==
    IF change.status = "LoadedChildObject"
    THEN <<change.id, change.seq>>
    ELSE <<change.ref.id, change.ref.version>>

\* the objects the call reads: every reference of the effects, every loaded child
ReadIds ==
    {effects.created[i][1].id : i \in 1..Len(effects.created)}
    \cup {effects.mutated[i][1].id : i \in 1..Len(effects.mutated)}
    \cup {effects.deleted[i].id : i \in 1..Len(effects.deleted)}
    \cup {effects.wrapped[i].id : i \in 1..Len(effects.wrapped)}
    \cup {effects.unwrapped[i][1].id : i \in 1..Len(effects.unwrapped)}
    \cup {effects.unwrapped_then_deleted[i].id : i \in 1..Len(effects.unwrapped_then_deleted)}
    \cup DOMAIN loaded_child_objects

\* C1: a returned list is, in this order, the light changes (created, mutated,
\* deleted, wrapped, unwrapped, unwrapped-then-deleted in the effects' order,
\* then the loaded children by ascending id), the package publishes, the raw
\* changes, one gas cost summary, the move calls in call order, one Effects and
\* one Transaction, which is last; the blocks do not interleave.
C1_EmissionOrder ==
    Extracted =>
        LET nc == Len(effects.created)
            nm == nc + Len(effects.mutated)
            nd == nm + Len(effects.deleted)
            nw == nd + Len(effects.wrapped)
            nu == nw + Len(effects.unwrapped)
            nx == nu + Len(effects.unwrapped_then_deleted)
            nl == nx + Cardinality(DOMAIN loaded_child_objects)
            calls == OfVariant("MoveCall")
        IN /\ \A i, j \in 1..Len(Out) :
                i < j => BlockRank(Out[i].variant) <= BlockRank(Out[j].variant)
           /\ \A i \in 1..Len(Out) : BlockRank(Out[i].variant) > 0
           /\ Len(OfVariant("ObjectChangeLight")) = nl
           /\ \A i \in 1..Len(effects.created) :
                Out[i].change = [status |-> "Created", ref |-> effects.created[i][1],
                                 owner |-> effects.created[i][2]]
           /\ \A i \in 1..Len(effects.mutated) :
                Out[nc + i].change = [status |-> "Mutated", ref |-> effects.mutated[i][1],
                                      owner |-> effects.mutated[i][2]]
           /\ \A i \in 1..Len(effects.deleted) :
                Out[nm + i].change = [status |-> "Deleted", ref |-> effects.deleted[i]]
           /\ \A i \in 1..Len(effects.wrapped) :
                Out[nd + i].change = [status |-> "Wrapped", ref |-> effects.wrapped[i]]
           /\ \A i \in 1..Len(effects.unwrapped) :
                Out[nw + i].change = [status |-> "Unwrapped", ref |-> effects.unwrapped[i][1],
                                      owner |-> effects.unwrapped[i][2]]
           /\ \A i \in 1..Len(effects.unwrapped_then_deleted) :
                Out[nu + i].change = [status |-> "UnwrappedThenDeleted",
                                      ref |-> effects.unwrapped_then_deleted[i]]
           /\ \A i \in (nx + 1)..nl :
                /\ Out[i].change.status = "LoadedChildObject"
                /\ Out[i].change.id \in DOMAIN loaded_child_objects
                /\ Out[i].change.seq = loaded_child_objects[Out[i].change.id]
                /\ i < nl => Out[i].change.id < Out[i + 1].change.id
           /\ Len(OfVariant("ObjectChangeRaw")) = nl
           /\ OfVariant("GasCostSummary")
                = <<[variant |-> "GasCostSummary", gas |-> effects.gas_cost_summary]>>
           /\ Len(calls) = Len(cert.move_calls)
           /\ \A i \in 1..Len(calls) :
                <<calls[i].package, calls[i].module, calls[i].function>> = cert.move_calls[i]
           /\ OfVariant("Effects") = <<[variant |-> "Effects", effects |-> effects]>>
           /\ OfVariant("Transaction") = <<[variant |-> "Transaction", tx |-> cert]>>
           /\ Out[Len(Out)].variant = "Transaction"

\* a list with two categories of change, a loaded child, a package publish and
\* two different move calls has been returned
C1_Witness ==
    /\ Extracted
    /\ Len(effects.created) = 1
    /\ Len(effects.mutated) = 1
    /\ DOMAIN loaded_child_objects # {}
    /\ Len(OfVariant("PackagePublish")) = 1
    /\ Len(cert.move_calls) = 2
    /\ cert.move_calls[1] # cert.move_calls[2]

\* C2: a returned list holds one ObjectChangeRaw per ObjectChangeLight, in the
\* same order: the i-th raw event carries the status of the i-th light event
\* and the object the store holds at that change's (id, version).
C2_RawMatchesLight ==
    Extracted =>
        LET lights == OfVariant("ObjectChangeLight")
            raws == OfVariant("ObjectChangeRaw")
        IN /\ Len(raws) = Len(lights)
           /\ \A i \in 1..Len(raws) :
                /\ raws[i].change = lights[i].change
                /\ raws[i].object = store[KeyOf(lights[i].change)]

\* a list with a loaded child that resolves to an object, next to a change of the
\* effects, has been returned
C2_Witness ==
    /\ Extracted
    /\ Len(effects.deleted) = 1
    /\ \E e \in {Out[i] : i \in 1..Len(Out)} :
          /\ e.variant = "ObjectChangeRaw"
          /\ e.change.status = "LoadedChildObject"
          /\ IsSome(e.object)

\* C3: when the store read of an object the call resolves fails, the call panics
\* and returns no list, neither a partial one nor one with a substituted value.
C3_FaultAborts ==
    (ret.op # "none" /\ fault # None /\ Unwrap(fault) \in ReadIds)
        => ret.panicked /\ ret.value = <<>>

\* the call panicked on the read of its second light change
C3_Witness ==
    /\ ret.op = "extract"
    /\ ret.panicked
    /\ Len(effects.created) = 1
    /\ Len(effects.mutated) = 1
    /\ fault = Some(effects.mutated[1][1].id)

\* the light changes of a returned list that carry a reference and resolve, at
\* the reference's id and version, to a package
IsPackageAt(change) ==
    /\ IsSome(store[KeyOf(change)])
    /\ Unwrap(store[KeyOf(change)]).is_package

\* the indices of the list at which the package resolved for change is published
PublishedAt(change) ==
    {j \in 1..Len(Out) :
        Out[j] = [variant |-> "PackagePublish", package |-> Unwrap(store[KeyOf(change)])]}

\* C4: in a returned list, every Created or Mutated change that resolves to a
\* package has exactly one PackagePublish event carrying that object, next to
\* its light and raw events, and these PackagePublish events stand in the order
\* of the light changes that caused them.
C4_PackagePublishPerPackage ==
    Extracted =>
        LET lights == OfVariant("ObjectChangeLight")
            raws == OfVariant("ObjectChangeRaw")
            publishing == {i \in 1..Len(lights) :
                              /\ lights[i].change.status \in {"Created", "Mutated"}
                              /\ IsPackageAt(lights[i].change)}
        IN /\ \A i \in publishing :
                /\ Cardinality(PublishedAt(lights[i].change)) = 1
                /\ \E j \in 1..Len(raws) : raws[j].change = lights[i].change
           /\ \A i1, i2 \in publishing :
                i1 < i2 =>
                    \A j1 \in PublishedAt(lights[i1].change),
                       j2 \in PublishedAt(lights[i2].change) : j1 < j2

\* a list for a transaction that created one package and mutated another has
\* been returned
C4_Witness ==
    /\ Extracted
    /\ Len(effects.created) = 1
    /\ Len(effects.mutated) = 1
    /\ Len(OfVariant("PackagePublish")) = 2

\* C5: in a returned list, the raw event of every Deleted change carries None
\* and the raw event of every Mutated change carries Some(object), the object
\* the store holds at that exact (id, version).
C5_DeletedNoneMutatedSome ==
    Extracted =>
        \A i \in 1..Len(Out) :
            Out[i].variant = "ObjectChangeRaw" =>
                /\ Out[i].change.status = "Deleted" => Out[i].object = None
                /\ Out[i].change.status = "Mutated" =>
                      /\ IsSome(Out[i].object)
                      /\ Out[i].object = store[KeyOf(Out[i].change)]
                      /\ Unwrap(Out[i].object).id = Out[i].change.ref.id
                      /\ Unwrap(Out[i].object).version = Out[i].change.ref.version

\* a list for a transaction that deleted one object and mutated another has
\* been returned
C5_Witness ==
    /\ Extracted
    /\ Len(effects.deleted) = 1
    /\ Len(effects.mutated) = 1

\* C8: a returned list of pairs holds one (payload, topic) pair per event body
\* of the extraction, in the same order; each topic is the kind named like the
\* body's variant, and every payload carries the caller's timestamp, checkpoint
\* id, sender and transaction digest.
C8_EnvelopePerEvent ==
    (ret.op = "envelope" /\ ~ret.panicked) =>
        LET bodies == FromPostExecData(cert, effects, loaded_child_objects, store, fault).value
            md == Unwrap(ret.metadata)
        IN /\ Len(Out) = Len(bodies)
           /\ \A i \in 1..Len(Out) :
                /\ Out[i][1].data = bodies[i]
                /\ Out[i][2] \in TxInfoNodeStreamTopic
                /\ Out[i][2] = bodies[i].variant
                /\ Out[i][1].metdata.message_process_timestamp_ms = md[1]
                /\ Out[i][1].metdata.checkpoint_id = md[2]
                /\ Out[i][1].metdata.sender = md[3]
                /\ Out[i][1].metdata.tx_digest = md[4]

\* pairs for a transaction with a published package and a move call have been
\* returned
C8_Witness ==
    /\ ret.op = "envelope"
    /\ ~ret.panicked
    /\ Len(cert.move_calls) = 1
    /\ \E i \in 1..Len(Out) : Out[i][2] = "PackagePublish"
    /\ Unwrap(ret.metadata)[1] # Unwrap(ret.metadata)[2]

\* C10: in a returned list, the number of PackagePublish events is the number
\* of reference-bearing light changes that resolve to a package; a loaded child
\* has exactly one raw event, carrying its resolution, and the object it
\* resolves to is never published, package or not.
C10_LoadedChildNeverPublished ==
    Extracted =>
        LET lights == OfVariant("ObjectChangeLight")
            raws == OfVariant("ObjectChangeRaw")
        IN /\ Len(OfVariant("PackagePublish"))
                = Cardinality({i \in 1..Len(lights) :
                                  /\ lights[i].change.status \in RefBearing
                                  /\ IsPackageAt(lights[i].change)})
           /\ \A i \in 1..Len(lights) :
                lights[i].change.status = "LoadedChildObject" =>
                    /\ Cardinality({j \in 1..Len(raws) :
                                       raws[j].change = lights[i].change}) = 1
                    /\ \A j \in 1..Len(raws) :
                          raws[j].change = lights[i].change
                             => raws[j].object = store[KeyOf(lights[i].change)]
                    /\ IsSome(store[KeyOf(lights[i].change)])
                          => PublishedAt(lights[i].change) = {}

\* a list for a transaction that loaded a child which is a package, and
\* unwrapped another package, has been returned
C10_Witness ==
    /\ Extracted
    /\ \E id \in DOMAIN loaded_child_objects :
          IsPackageAt([status |-> "LoadedChildObject", id |-> id,
                       seq |-> loaded_child_objects[id]])
    /\ Len(effects.unwrapped) = 1
    /\ Len(OfVariant("PackagePublish")) = 1

====
